---- MODULE Spec2Model ----
(***************************************************************************)
(* Model of assign_driver.py: the script reads three tables (students,     *)
(* drivers, campus_distance), builds an integer program that assigns       *)
(* pickup locations to drivers with a ride-service fallback, hands it to   *)
(* an external solver and extracts three result tables.                    *)
(*                                                                         *)
(* The script runs top to bottom; pc is its position:                      *)
(*   "start" -> "normalized" -> "built" -> "solved" -> "extracted",        *)
(* or "aborted" when an exception ends the run.  What follows the          *)
(* extraction only prints and saves the three tables.                      *)
(***************************************************************************)
EXTENDS Integers, Sequences, FiniteSets, TLC

VARIABLES
    pc,                 \* position of the script
    students_df,        \* students sheet: number of rows per location name
    drivers_df,         \* drivers sheet: sequence of rows [name, capacity]
    dist_df,            \* distance sheet: [index, columns, cell]
    demand,             \* location -> number of students
    locations,          \* list(demand.keys()), in groupby (sorted) order
    isolated_locations, \* sorted list of locations missing from the sheet
    travel,             \* travel[i][j]
    drivers,            \* driver names, one per row
    driver_caps,        \* dict name -> capacity
    pairs,              \* list of (i,k) that got a w variable
    status,             \* pulp.LpStatus[model.status]
    sol,                \* values of the variables x, y, u, w, uber_y
    logged,             \* status strings printed by the status check
    driver_assignments, \* detailed assignment rows
    driver_summary,     \* one summary row per entry of drivers
    uber                \* dict location -> leftover (> 0 only)

vars == <<pc, students_df, drivers_df, dist_df, demand, locations,
          isolated_locations, travel, drivers, driver_caps, pairs, status,
          sol, logged, driver_assignments, driver_summary, uber>>

----------------------------------------------------------------------------
(* Bounds of the model and the input domains.                              *)

MaxDemand == 1      \* students per location in the students sheet
MaxDrivers == 2     \* rows of the drivers sheet
MaxCap == 2         \* capacity of a driver
MaxVal == 2         \* largest value tried for y and uber (above MaxDemand)

LocOrder == <<"A", "B", "C">>          \* location names in sorted order
LocNames == {LocOrder[n] : n \in 1..Len(LocOrder)}
DriverNames == {"d1", "d2"}
Capacities == 0..MaxCap
NaN == -1           \* a cell pd.isna() holds of (travel times are >= 0)
None == -2          \* Python's None, where a number is expected
TimeNear == 5       \* a pair this close is cheaper than one more driver
TimeFar == 20       \* a pair this far is dearer than one more driver

(* Program constants. *)
BIG_UBER == 100000000
BIG_DRIVER == 100000
SMALL_TRIP == 10000
BIG_DISTANCE == 1000000
USE_DEF_M == 1000

----------------------------------------------------------------------------
(* Helpers. *)

Rank(l) == CHOOSE n \in 1..Len(LocOrder) : LocOrder[n] = l

Range(s) == {s[n] : n \in 1..Len(s)}

RECURSIVE SumOver(_, _)
SumOver(S, f) ==
    IF S = {} THEN 0
    ELSE LET e == CHOOSE e \in S : TRUE IN f[e] + SumOver(S \ {e}, f)

SeqsUpTo(S, n) == UNION {[1..m -> S] : m \in 0..n}

Min(S) == CHOOSE m \in S : \A v \in S : m <= v

(* The functions f on D with f[d] \in R[d] for every d. *)
RECURSIVE FuncsInto(_, _)
FuncsInto(D, R) ==
    IF D = {} THEN { <<>> }
    ELSE LET d == CHOOSE d \in D : TRUE
         IN  { g @@ (d :> v) : g \in FuncsInto(D \ {d}, R), v \in R[d] }

----------------------------------------------------------------------------
(* The input tables.  A distance sheet has row labels (index), column      *)
(* labels and a cell per (row, column); a cell may be NaN.  The sheets     *)
(* tried hold TimeFar below the diagonal, TimeNear from the first          *)
(* location to the second, and NaN elsewhere (so the first two locations   *)
(* differ by direction and every pair with the third has one direction     *)
(* only); they may lack the last location as a row, as a column or as      *)
(* both.                                                                   *)

SheetLabels == {LocNames, LocNames \ {LocOrder[Len(LocOrder)]}}

SheetCell(i, j) ==
    IF Rank(i) > Rank(j) THEN TimeFar
    ELSE IF Rank(i) = 1 /\ Rank(j) = 2 THEN TimeNear
    ELSE NaN

DistSheets ==
    { [index |-> I, columns |-> C,
       cell |-> [p \in I \X C |-> SheetCell(p[1], p[2])]] :
      I \in SheetLabels, C \in SheetLabels }

DriverRows == [name : DriverNames, capacity : Capacities]

(* The drivers sheets tried: up to MaxDrivers rows.  Names are labels of  *)
(* which only equality matters, so the first row is the one called "d1".  *)
DriverSheets ==
    { t \in SeqsUpTo(DriverRows, MaxDrivers) : Len(t) > 0 => t[1].name = "d1" }

Init ==
    /\ pc = "start"
    /\ students_df \in [LocNames -> 0..MaxDemand]
    /\ drivers_df \in DriverSheets
    /\ dist_df \in DistSheets
    /\ demand = <<>>
    /\ locations = <<>>
    /\ isolated_locations = <<>>
    /\ travel = <<>>
    /\ drivers = <<>>
    /\ driver_caps = <<>>
    /\ pairs = <<>>
    /\ status = ""
    /\ sol = <<>>
    /\ logged = <<>>
    /\ driver_assignments = <<>>
    /\ driver_summary = <<>>
    /\ uber = <<>>

----------------------------------------------------------------------------
(* Input normalizer. *)

(* students_df.groupby(location).size().to_dict(): one key per location   *)
(* that has at least one row.                                              *)
demand_of(sdf) ==
    [l \in {l \in LocNames : sdf[l] > 0} |-> sdf[l]]

(* list(demand.keys()): groupby sorts its keys. *)
locations_of(dem) == SelectSeq(LocOrder, LAMBDA l : l \in DOMAIN dem)

(* sorted(list(missing_rows | missing_cols)) *)
isolated_of(locs, df) ==
    LET missing_rows == Range(locs) \ df.index
        missing_cols == Range(locs) \ df.columns
    IN  SelectSeq(LocOrder, LAMBDA l : l \in missing_rows \cup missing_cols)

(* dist_df.loc[i, j] is read only when i is a row label and j a column    *)
(* label, and used only when it is not NaN.                                *)
has_value(df, i, j) ==
    /\ i \in df.index
    /\ j \in df.columns
    /\ df.cell[<<i, j>>] # NaN

(* One entry of the travel dict: the forward cell, else the reverse cell  *)
(* (tried only when val is still the BIG_DISTANCE object, that is when    *)
(* the forward lookup assigned nothing), else BIG_DISTANCE.                *)
travel_val(df, i, j) ==
    IF has_value(df, i, j) THEN df.cell[<<i, j>>]
    ELSE IF has_value(df, j, i) THEN df.cell[<<j, i>>]
    ELSE BIG_DISTANCE

travel_of(locs, df) ==
    [i \in Range(locs) |-> [j \in Range(locs) |-> travel_val(df, i, j)]]

(* drivers_df.iloc[:,0].astype(str).tolist() *)
drivers_of(ddf) == [n \in 1..Len(ddf) |-> ddf[n].name]

(* {drivers[i]: cap_series[i] for i in range(len(drivers))}: a dict, so a *)
(* later row with the same name overwrites an earlier one.                 *)
driver_caps_of(ddf) ==
    [d \in {ddf[n].name : n \in 1..Len(ddf)} |->
        LET last == CHOOSE n \in 1..Len(ddf) :
                        /\ ddf[n].name = d
                        /\ \A m \in 1..Len(ddf) : ddf[m].name = d => m <= n
        IN  ddf[last].capacity]

Normalize ==
    /\ pc = "start"
    /\ demand' = demand_of(students_df)
    /\ locations' = locations_of(demand')
    /\ isolated_locations' = isolated_of(locations', dist_df)
    /\ travel' = travel_of(locations', dist_df)
    /\ drivers' = drivers_of(drivers_df)
    /\ driver_caps' = driver_caps_of(drivers_df)
    /\ pc' = "normalized"
    /\ UNCHANGED <<students_df, drivers_df, dist_df, pairs, status, sol,
                   logged, driver_assignments, driver_summary, uber>>

----------------------------------------------------------------------------
(* Assignment model builder. *)

(* The nested loops over a_idx < b_idx: a pair is appended when           *)
(* travel[i][k] is not None.                                               *)
RECURSIVE pair_loop(_, _, _, _)
pair_loop(locs, trav, a_idx, b_idx) ==
    IF a_idx > Len(locs) THEN <<>>
    ELSE IF b_idx > Len(locs) THEN pair_loop(locs, trav, a_idx + 1, a_idx + 2)
    ELSE (IF trav[locs[a_idx]][locs[b_idx]] # None
             THEN << <<locs[a_idx], locs[b_idx]>> >>
             ELSE <<>>)
         \o pair_loop(locs, trav, a_idx, b_idx + 1)

pairs_of(locs, trav) == pair_loop(locs, trav, 1, 2)

(* Every constraint is added under a name that holds the driver's name;   *)
(* the program model refuses a second constraint of the same name, so a   *)
(* drivers sheet with a repeated name ends the run in the first           *)
(* constraint loop that reaches the repeated name.                         *)
overlapping_names(drv) ==
    \E m, n \in 1..Len(drv) : m < n /\ drv[m] = drv[n]

Build ==
    /\ pc = "normalized"
    /\ pairs' = pairs_of(locations, travel)
    /\ pc' = IF overlapping_names(drivers) THEN "aborted" ELSE "built"
    /\ UNCHANGED <<students_df, drivers_df, dist_df, demand, locations,
                   isolated_locations, travel, drivers, driver_caps, status,
                   sol, logged, driver_assignments, driver_summary, uber>>

----------------------------------------------------------------------------
(* The integer program.  A plan holds one driver's variables: x[i] and    *)
(* y[i] per location, u, and w[idx] per entry of pairs.                    *)

LocSet == Range(locations)
NameSet == DOMAIN driver_caps
PairIdx == 1..Len(pairs)

(* 1) y[j][i] <= cap_j * x[j][i] *)
cap_link(cap_j, x_ji, y_ji) == y_ji <= cap_j * x_ji

(* Constraint 2 written per stop instead of over the driver's total. *)
driver_cap_per_stop(cap_j, yj, uj) == \A i \in DOMAIN yj : yj[i] <= cap_j * uj

(* 2) lpSum(y[j][i] for i in locations) <= cap_j * u[j] *)
driver_cap(cap_j, yj, uj) == SumOver(DOMAIN yj, yj) <= cap_j * uj

(* 3) lpSum(x[j][i] for i in locations) <= 1000 * u[j] *)
use_def(xj, uj) == SumOver(DOMAIN xj, xj) <= USE_DEF_M * uj

(* Constraint 4 with the limit off by one. *)
max3stops(xj) == SumOver(DOMAIN xj, xj) <= 3

(* 4) lpSum(x[j][i] for i in locations) <= 2 *)
max2stops(xj) == SumOver(DOMAIN xj, xj) <= 2

(* 5) w <= x[i], w <= x[k], w >= x[i] + x[k] - 1 *)
w_le_x1(w_jp, x_ji, x_jk) == w_jp <= x_ji
w_le_x2(w_jp, x_ji, x_jk) == w_jp <= x_jk
(* The third linking constraint with the constant off by one. *)
w_ge_summinus2(w_jp, x_ji, x_jk) == w_jp >= x_ji + x_jk - 2

w_ge_summinus1(w_jp, x_ji, x_jk) == w_jp >= x_ji + x_jk - 1

(* Constraint 6 as an inequality ("satisfied at most by"). *)
demand_cover_at_most(picked_i, uber_i, demand_i) == picked_i + uber_i <= demand_i

(* 6) lpSum(y[j][i] for j in drivers) + uber_y[i] == demand[i] *)
demand_cover(picked_i, uber_i, demand_i) == picked_i + uber_i = demand_i

(* The values of one driver's variables that satisfy constraints 1 to 5.  *)
(* x, u and w are Binary; y is Integer with lowBound 0.                    *)
DriverPlans(cap_j, L, prs) ==
    LET X == { xj \in [L -> {0, 1}] : max2stops(xj) }
        Y(xj) == FuncsInto(L, [i \in L |->
                     { v \in 0..MaxVal : cap_link(cap_j, xj[i], v) }])
        U(xj, yj) == { uj \in {0, 1} :
                         driver_cap(cap_j, yj, uj) /\ use_def(xj, uj) }
        W(xj) == FuncsInto(1..Len(prs), [idx \in 1..Len(prs) |->
                     { v \in {0, 1} :
                         /\ w_le_x1(v, xj[prs[idx][1]], xj[prs[idx][2]])
                         /\ w_le_x2(v, xj[prs[idx][1]], xj[prs[idx][2]])
                         /\ w_ge_summinus1(v, xj[prs[idx][1]],
                                           xj[prs[idx][2]]) }])
        XY == UNION { { <<xj, yj>> : yj \in Y(xj) } : xj \in X }
        XYU == UNION { { <<q[1], q[2], uj>> : uj \in U(q[1], q[2]) } :
                       q \in XY }
    IN  UNION { { [x |-> q[1], y |-> q[2], u |-> q[3], w |-> wj] :
                  wj \in W(q[1]) } : q \in XYU }

(* One plan per driver name. *)
PlanCombos(caps, L, prs) ==
    FuncsInto(DOMAIN caps, [j \in DOMAIN caps |-> DriverPlans(caps[j], L, prs)])

(* uber_y is Integer with lowBound 0; constraint 6 per location. *)
UberChoices(f, L, dem) ==
    FuncsInto(L, [i \in L |->
        LET picked_i == SumOver(DOMAIN f, [j \in DOMAIN f |-> f[j].y[i]])
        IN  { v \in 0..MaxVal : demand_cover(picked_i, v, dem[i]) }])

(* Every assignment of the variables that satisfies the built model. *)
Solutions ==
    UNION { { [x |-> [j \in NameSet |-> f[j].x],
               y |-> [j \in NameSet |-> f[j].y],
               u |-> [j \in NameSet |-> f[j].u],
               w |-> [j \in NameSet |-> f[j].w],
               uber_y |-> ub] : ub \in UberChoices(f, LocSet, demand) } :
            f \in PlanCombos(driver_caps, LocSet, pairs) }

(* The three terms of the objective. *)
uber_penalty(s) == SumOver(DOMAIN s.uber_y, s.uber_y)

total_drivers_used(s) == SumOver(DOMAIN s.u, s.u)

total_travel_time(s) ==
    SumOver(DOMAIN s.w,
            [j \in DOMAIN s.w |->
                SumOver(PairIdx,
                        [idx \in PairIdx |->
                            travel[pairs[idx][1]][pairs[idx][2]] * s.w[j][idx]])])

(* BIG_UBER * uber_penalty + BIG_DRIVER * total_drivers_used              *)
(*   + SMALL_TRIP * total_travel_time, in units of SMALL_TRIP (which      *)
(* divides the other two weights), to stay within 32-bit integers.         *)
Objective(s) ==
    (BIG_UBER \div SMALL_TRIP) * uber_penalty(s)
    + (BIG_DRIVER \div SMALL_TRIP) * total_drivers_used(s)
    + total_travel_time(s)

(* The assignments of S with the least objective value. *)
OptimalOf(S) ==
    LET best == Min({Objective(s) : s \in S})
    IN  {s \in S : Objective(s) = best}

(* No value was assigned to any variable: pulp.value() gives None. *)
NoValues ==
    [x |-> [j \in NameSet |-> [i \in LocSet |-> None]],
     y |-> [j \in NameSet |-> [i \in LocSet |-> None]],
     u |-> [j \in NameSet |-> None],
     w |-> [j \in NameSet |-> [idx \in PairIdx |-> None]],
     uber_y |-> [i \in LocSet |-> None]]

(* if LpStatus[model.status] not in [...]: print("Solver status:", ...) *)
status_log(st) ==
    IF st \notin {"Optimal", "Not Solved", "Integer Feasible", "Optimal"}
    THEN <<st>> ELSE <<>>

(* The solver is a black box: it ends with a proven optimum, with a       *)
(* feasible assignment it could not prove optimal, or with no values.      *)
Solve ==
    /\ pc = "built"
    /\ LET S == Solutions
       IN  \/ /\ status' = "Optimal"
              /\ sol' \in OptimalOf(S)
           \/ /\ status' = "Integer Feasible"
              /\ sol' \in S
           \/ /\ status' \in {"Infeasible", "Not Solved"}
              /\ sol' = NoValues
    /\ logged' = status_log(status')
    /\ pc' = "solved"
    /\ UNCHANGED <<students_df, drivers_df, dist_df, demand, locations,
                   isolated_locations, travel, drivers, driver_caps, pairs,
                   driver_assignments, driver_summary, uber>>

----------------------------------------------------------------------------
(* Result extractor. *)

(* int(round(pulp.value(v) or 0)) *)
value_or_0(v) == IF v = None THEN 0 ELSE v

RECURSIVE Concat(_)
Concat(ss) == IF ss = <<>> THEN <<>> ELSE Head(ss) \o Concat(Tail(ss))

(* The first loop's rows for driver j: one per location with yi != 0. *)
assignment_rows(s, j) ==
    LET picked == SelectSeq(locations, LAMBDA i : value_or_0(s.y[j][i]) # 0)
    IN  [n \in 1..Len(picked) |->
            [driver |-> j,
             location |-> picked[n],
             students_picked |-> value_or_0(s.y[j][picked[n]]),
             stop_flag |-> value_or_0(s.x[j][picked[n]])]]

(* travel_time_j: the sum of travel[i][k] over the pairs whose w is 1. *)
travel_time(s, j) ==
    SumOver(PairIdx,
            [idx \in PairIdx |->
                IF value_or_0(s.w[j][idx]) = 1
                THEN travel[pairs[idx][1]][pairs[idx][2]] ELSE 0])

summary_row(s, j) ==
    [driver |-> j,
     used |-> value_or_0(s.u[j]),
     stops |-> SelectSeq(locations, LAMBDA i : value_or_0(s.x[j][i]) = 1),
     students_picked_total |->
         SumOver(LocSet, [i \in LocSet |-> value_or_0(s.y[j][i])]),
     estimated_travel_time |-> travel_time(s, j)]

uber_of(s) ==
    [i \in {i \in LocSet : value_or_0(s.uber_y[i]) > 0} |->
        value_or_0(s.uber_y[i])]

(* The first loop starts with used = int(pulp.value(u[j])), which has no  *)
(* "or 0": int(None) raises TypeError and ends the run.                    *)
int_of_none(s) == \E n \in 1..Len(drivers) : s.u[drivers[n]] = None

Extract ==
    /\ pc = "solved"
    /\ IF int_of_none(sol)
       THEN /\ pc' = "aborted"
            /\ UNCHANGED <<driver_assignments, driver_summary, uber>>
       ELSE /\ driver_assignments' =
                Concat([n \in 1..Len(drivers) |-> assignment_rows(sol, drivers[n])])
            /\ driver_summary' =
                [n \in 1..Len(drivers) |-> summary_row(sol, drivers[n])]
            /\ uber' = uber_of(sol)
            /\ pc' = "extracted"
    /\ UNCHANGED <<students_df, drivers_df, dist_df, demand, locations,
                   isolated_locations, travel, drivers, driver_caps, pairs,
                   status, sol, logged>>

Next == Normalize \/ Build \/ Solve \/ Extract

Spec == Init /\ [][Next]_vars

----------------------------------------------------------------------------
(* Properties. *)

(* The solver returned an assignment that satisfies the model. *)
HasSolution ==
    /\ pc \in {"solved", "extracted"}
    /\ status \in {"Optimal", "Integer Feasible"}

picked_at(s, i) == SumOver(DOMAIN s.y, [j \in DOMAIN s.y |-> s.y[j][i]])
picked_by(s, j) == SumOver(LocSet, s.y[j])
stops_of(s, j) == SumOver(LocSet, s.x[j])

(* C1: for any two assignments A and B that satisfy the built model, if   *)
(* A's ride-service total is strictly less than B's then A's objective    *)
(* value is strictly less than B's.  (Stated on the pairs                 *)
(* <<ride-service total, objective>> the assignments take.)               *)
C1_LexDominance ==
    pc = "built" =>
        LET V == { <<uber_penalty(s), Objective(s)>> : s \in Solutions }
        IN  \A a, b \in V : a[1] < b[1] => a[2] < b[2]

(* C2: an objective-minimal assignment uses the fewest drivers among the  *)
(* assignments that satisfy the model and have its ride-service total.    *)
(* (Stated for the inputs where every pair's travel time is a value of    *)
(* the sheet, none the BIG_DISTANCE default.)                             *)
C2_DriversBeforeTravel ==
    (/\ pc = "solved"
     /\ status = "Optimal"
     /\ \A idx \in PairIdx :
           travel[pairs[idx][1]][pairs[idx][2]] < BIG_DISTANCE) =>
        \A s \in Solutions :
            uber_penalty(s) = uber_penalty(sol) =>
                total_drivers_used(sol) <= total_drivers_used(s)

(* C3: no pair variable w[j,(i,k)] is created with an isolated location   *)
(* as an endpoint, for any driver j.                                       *)
C3_NoPairForIsolated ==
    pc = "built" =>
        \A j \in NameSet : \A idx \in PairIdx :
            /\ pairs[idx][1] \notin Range(isolated_locations)
            /\ pairs[idx][2] \notin Range(isolated_locations)

(* C4: in every assignment the solver returns, at every location the      *)
(* drivers' pickups plus the ride-service leftover equal the demand, and  *)
(* pickups and leftovers are non-negative integers.                        *)
C4_Coverage ==
    HasSolution =>
        \A i \in LocSet :
            /\ picked_at(sol, i) + sol.uber_y[i] = demand[i]
            /\ sol.uber_y[i] \in Nat
            /\ \A j \in NameSet : sol.y[j][i] \in Nat

C4_Witness ==
    /\ HasSolution
    /\ \E i, k \in LocSet : picked_at(sol, i) > 0 /\ sol.uber_y[k] > 0

(* C5: in every assignment the solver returns, a driver's pickups sum to  *)
(* at most its capacity, and to 0 when u[j] = 0.                           *)
C5_Capacity ==
    HasSolution =>
        \A j \in NameSet :
            /\ picked_by(sol, j) <= driver_caps[j]
            /\ sol.u[j] = 0 => picked_by(sol, j) = 0

C5_Witness ==
    /\ HasSolution
    /\ \E j, k \in NameSet :
          /\ stops_of(sol, j) = 2
          /\ picked_by(sol, j) = driver_caps[j]
          /\ driver_caps[j] > 0
          /\ sol.u[k] = 0

(* C6: in every assignment the solver returns, a driver has at most two   *)
(* locations with x = 1, and every location it picks up at is one of      *)
(* them.                                                                   *)
C6_StopCount ==
    HasSolution =>
        \A j \in NameSet :
            /\ stops_of(sol, j) <= 2
            /\ \A i \in LocSet : sol.y[j][i] > 0 => sol.x[j][i] = 1

C6_Witness ==
    /\ HasSolution
    /\ Len(locations) = 3
    /\ \E j \in NameSet :
          /\ stops_of(sol, j) = 2
          /\ \E i \in LocSet : sol.y[j][i] > 0

(* C7: in every assignment the solver returns, w[j,(i,k)] = 1 exactly     *)
(* when x[j,i] = 1 and x[j,k] = 1, at most one pair variable per driver   *)
(* is 1, and the extracted travel time of a driver is the travel value of *)
(* its two stops, 0 when it has fewer than two.                            *)
C7_PairConsistency ==
    /\ HasSolution =>
          \A j \in NameSet :
              /\ \A idx \in PairIdx :
                    sol.w[j][idx] = 1 <=>
                        (sol.x[j][pairs[idx][1]] = 1 /\ sol.x[j][pairs[idx][2]] = 1)
              /\ Cardinality({idx \in PairIdx : sol.w[j][idx] = 1}) <= 1
    /\ (HasSolution /\ pc = "extracted") =>
          \A n \in 1..Len(driver_summary) :
              LET row == driver_summary[n]
              IN  row.estimated_travel_time =
                      IF Len(row.stops) = 2
                      THEN travel[row.stops[1]][row.stops[2]]
                      ELSE 0

C7_Witness ==
    /\ HasSolution
    /\ pc = "extracted"
    /\ \E n \in 1..Len(driver_summary) :
          /\ Len(driver_summary[n].stops) = 2
          /\ driver_summary[n].estimated_travel_time = TimeNear
          /\ \E idx \in PairIdx : sol.w[driver_summary[n].driver][idx] = 1

(* C8: every row of the drivers sheet is a driver of its own, with its    *)
(* own capacity and variables, also when two rows carry the same name,    *)
(* and the model is then built.                                            *)
C8_RowsAreDrivers ==
    /\ pc # "start" =>
          /\ Cardinality(NameSet) = Len(drivers_df)
          /\ \A n \in 1..Len(drivers_df) :
                driver_caps[drivers[n]] = drivers_df[n].capacity
    /\ (pc = "aborted" /\ status = "") => ~overlapping_names(drivers)

(* C9: whatever status the solver ends with, and also when it assigned   *)
(* no values, the run is not aborted: extraction completes, reads every   *)
(* undefined value as 0, and the three tables are produced.               *)
C9_BestEffortExtraction ==
    /\ ~(pc = "aborted" /\ status # "")
    /\ (pc = "extracted" /\ sol = NoValues) =>
          /\ driver_assignments = <<>>
          /\ uber = <<>>
          /\ \A n \in 1..Len(driver_summary) :
                /\ driver_summary[n].used = 0
                /\ driver_summary[n].students_picked_total = 0

(* C10: travel[i][k] = travel[k][i] for every two demand locations. *)
C10_TravelSymmetric ==
    pc # "start" =>
        \A i, k \in LocSet : travel[i][k] = travel[k][i]

====
